---- MODULE Spec2Model ----
(***************************************************************************)
(* State-machine model of FastKMEANS.run() from src/fast-kmeans.ts.        *)
(*                                                                         *)
(* The file holds two implementations of the same clusterer: the class     *)
(* (lines 11-304) and the prototype-based function (lines 316-614).  The   *)
(* variable `variant` selects which of the two is running; they differ     *)
(* only in how the initial lower bound is stored (lines 82-84 vs 386).     *)
(*                                                                         *)
(* Encoding of values                                                      *)
(*  - dataset coordinates are small integers; every other number of a     *)
(*    run is an exact rational: an array of numbers is its numerators      *)
(*    `num` over one common denominator `den` (a mean is the coordinate    *)
(*    sums over the point count), element x being num[x] / den             *)
(*  - a distance (Math.sqrt(sum)) is represented by its square `sum`, the  *)
(*    rational n / d: sqrt is strictly increasing, so every `<` the code   *)
(*    evaluates on two distances has the same outcome on their squares;    *)
(*    rationals are compared by cross-multiplication                       *)
(*  - Number.MAX_VALUE and undefined are tagged values                     *)
(*  - an array reference is a record: tag "point" with the dataset index   *)
(*    it aliases, tag "mean" for a freshly allocated mean array, tag       *)
(*    "undef" for undefined                                                *)
(*  - run() throwing a TypeError is the control state pc = "threw"; a      *)
(*    randomCentroid() whose every draw is rejected only stutters          *)
(*  - seeds, passes, moved and reassigned are history variables: the ids   *)
(*    accepted as seeds, the number of passes begun, and whether the       *)
(*    current pass replaced a centroid / reassigned a point                *)
(*  - ids (points, clusters) are 0-based as in the source; a sequence s    *)
(*    modelling an array a has a[i] = s[i + 1]                             *)
(***************************************************************************)
EXTENDS Integers, Sequences, FiniteSets, TLC

\* ---- bounds of the model
\* at most MaxN points; coordinates 0, 1 and Far; constructor argument k in
\* 0..MaxK; the pass counter saturates at MaxPasses
MaxN == 3
Far == 4
MaxK == 3
MaxPasses == 3

\* ---- program constants
maxDim == 10
DefaultK == 3

Variants == {"class", "proto"}
Coords == {0, 1, Far}
\* the points are one-dimensional vectors
Points == {<<c>> : c \in Coords}
Datasets == UNION {[1..n -> Points] : n \in 0..MaxN}

\* ---- tagged JS numbers: a finite number n / d, Number.MAX_VALUE, undefined
Num(n, d) == [tag |-> "num", n |-> n, d |-> d]
MAX_VALUE == [tag |-> "max", n |-> 0, d |-> 1]
UndefNum == [tag |-> "undef", n |-> 0, d |-> 1]

\* the JS operator a < b on tagged numbers (comparison with undefined is false);
\* x and y are the two operands, each evaluated once
Less(a, b) ==
  \E x \in {a}, y \in {b} :
     IF x.tag = "undef" \/ y.tag = "undef" THEN FALSE
     ELSE IF x.tag = "max" THEN FALSE
     ELSE IF y.tag = "max" THEN TRUE
     ELSE x.n * y.d < y.n * x.d

\* ---- array references
Undefined == [tag |-> "undef", id |-> -1, num |-> <<>>, den |-> 1]
PointRef(ds, id) == [tag |-> "point", id |-> id, num |-> ds[id + 1], den |-> 1]
MeanArr(sums, cnt) == [tag |-> "mean", id |-> -1, num |-> sums, den |-> cnt]

\* dataset[id]: undefined outside 0..n-1
DatasetAt(ds, id) == IF id \in 0..(Len(ds) - 1) THEN PointRef(ds, id) ELSE Undefined

\* a === b on array references / undefined
SameRef(a, b) ==
  \/ a.tag = "undef" /\ b.tag = "undef"
  \/ a.tag = "point" /\ b.tag = "point" /\ a.id = b.id

\* centroids.indexOf(c) >= 0
IndexOfHit(cents, c) == \E x \in 1..Len(cents) : SameRef(cents[x], c)

\* values Math.round(Math.random() * maxId) can take, maxId = dataset.length - 1
RandomIds(ds) == IF Len(ds) = 0 THEN {-1, 0} ELSE 0..(Len(ds) - 1)

Min2(a, b) == IF a < b THEN a ELSE b

\* sum of diff * diff over the first x coordinates, times (p.den * q.den)^2
RECURSIVE SumSq(_, _, _)
SumSq(p, q, x) ==
  IF x = 0 THEN 0
  ELSE (p.num[x] * q.den - q.num[x] * p.den) * (p.num[x] * q.den - q.num[x] * p.den)
         + SumSq(p, q, x - 1)

\* euclideanDistance(p, q), represented by its square
euclideanDistance(p, q) ==
  Num(SumSq(p, q, Min2(Len(p.num), Len(q.num))), (p.den * q.den) * (p.den * q.den))

RECURSIVE argminFrom(_, _, _, _, _)
argminFrom(point, set, x, min, arg) ==
  IF x >= Len(set) THEN arg
  ELSE LET d == euclideanDistance(point, set[x + 1])
       IN  IF Less(d, min) THEN argminFrom(point, set, x + 1, d, x)
           ELSE argminFrom(point, set, x + 1, min, arg)

argmin(point, set) == argminFrom(point, set, 0, MAX_VALUE, 0)

VARIABLES variant, dataset, kArg, k, centroids, assignments, upperBounds,
          lowerBounds, neighborClusters, change, pc, i, centroidId, clusters,
          seeds, passes, moved, reassigned

vars == <<variant, dataset, kArg, k, centroids, assignments, upperBounds,
          lowerBounds, neighborClusters, change, pc, i, centroidId, clusters,
          seeds, passes, moved, reassigned>>

len == Len(dataset)

\* state after the constructor and the init() call that opens run()
Init ==
  /\ variant \in Variants
  /\ dataset \in Datasets
  /\ kArg \in 0..MaxK
  /\ k = IF kArg = 0 THEN DefaultK ELSE kArg
  /\ centroids = <<>>
  /\ assignments = <<>>
  /\ upperBounds = <<>>
  /\ lowerBounds = <<>>
  /\ neighborClusters = <<>>
  /\ change = TRUE
  /\ pc = "initCentroids"
  /\ i = 0
  /\ centroidId = 0
  /\ clusters = <<>>
  /\ seeds = <<>>
  /\ passes = 0
  /\ moved = FALSE
  /\ reassigned = FALSE

\* one turn of the do-while of randomCentroid(): draw an id, reject it when the
\* drawn reference is already among the centroids (the loop then draws again)
randomCentroidAccepts(id) == ~IndexOfHit(centroids, DatasetAt(dataset, id))

\* run(): for (i < k) centroids[i] = randomCentroid()
RunInitCentroids ==
  /\ pc = "initCentroids"
  /\ i < k
  /\ \E id \in RandomIds(dataset) :
       IF randomCentroidAccepts(id)
       THEN /\ centroids' = Append(centroids, DatasetAt(dataset, id))
            /\ seeds' = Append(seeds, id)
            /\ i' = i + 1
            /\ pc' = IF i + 1 < k THEN "initCentroids" ELSE "initBounds"
       ELSE UNCHANGED <<centroids, seeds, i, pc>>
  /\ UNCHANGED <<variant, dataset, kArg, k, assignments, upperBounds, lowerBounds,
                 neighborClusters, change, centroidId, clusters, passes, moved,
                 reassigned>>

\* the second scan of the initial bound loop (lines 70-78): nearest centroid
\* other than `closest`; arg = -1 stands for `secondClosestCentroid` undefined
RECURSIVE secondClosestFrom(_, _, _, _, _)
secondClosestFrom(point, closest, cid, min, arg) ==
  IF cid >= k THEN [min |-> min, arg |-> arg]
  ELSE LET dist == euclideanDistance(point, centroids[cid + 1])
       IN  IF cid # closest /\ Less(dist, min)
           THEN secondClosestFrom(point, closest, cid + 1, dist, cid)
           ELSE secondClosestFrom(point, closest, cid + 1, min, arg)

\* what one turn of the initial bound loop computes for point j
initBound(j) ==
  LET point == DatasetAt(dataset, j)
      closest == argmin(point, centroids)
      second == secondClosestFrom(point, closest, 0, MAX_VALUE, -1)
  IN  [closest |-> closest, min |-> second.min, arg |-> second.arg]

\* class, lines 82-84: `if (secondClosestCentroid)` is false for undefined and for id 0
lowerBoundClass(j, arg) ==
  IF arg > 0
  THEN euclideanDistance(DatasetAt(dataset, j), centroids[arg + 1])
  ELSE UndefNum

\* prototype, line 386: unconditional; with secondClosestCentroid undefined the
\* call distance(p, undefined) reads undefined.length and throws a TypeError
lowerBoundProto(j, arg) == euclideanDistance(DatasetAt(dataset, j), centroids[arg + 1])

initBoundThrows(j) == variant = "proto" /\ initBound(j).arg = -1

lowerBoundInit(j) ==
  IF variant = "class" THEN lowerBoundClass(j, initBound(j).arg)
  ELSE lowerBoundProto(j, initBound(j).arg)

SetMin(S) == CHOOSE x \in S : \A y \in S : x <= y

\* run(): the initial bound loop over all points
RunInitBounds ==
  /\ pc = "initBounds"
  /\ LET throwers == {j \in 0..(len - 1) : initBoundThrows(j)}
     IN  IF throwers = {}
         THEN /\ upperBounds' = [j \in 1..len |-> initBound(j - 1).min]
              /\ lowerBounds' = [j \in 1..len |-> lowerBoundInit(j - 1)]
              /\ assignments' = [j \in 1..len |-> initBound(j - 1).closest]
              /\ pc' = "while"
         ELSE LET t == SetMin(throwers)
              IN  /\ upperBounds' = [j \in 1..(t + 1) |-> initBound(j - 1).min]
                  /\ lowerBounds' = [j \in 1..t |-> lowerBoundInit(j - 1)]
                  /\ assignments' = [j \in 1..t |-> initBound(j - 1).closest]
                  /\ pc' = "threw"
  /\ UNCHANGED <<variant, dataset, kArg, k, centroids, neighborClusters, change, i,
                 centroidId, clusters, seeds, passes, moved, reassigned>>

\* ---- updateNeighborClusters
RECURSIVE addAll(_, _, _)
addAll(acc, s, pos) ==
  IF pos > Len(s) THEN acc
  ELSE IF \E x \in 1..Len(acc) : acc[x] = s[pos] THEN addAll(acc, s, pos + 1)
  ELSE addAll(Append(acc, s[pos]), s, pos + 1)

RECURSIVE neighborClusterIds(_, _, _)
neighborClusterIds(c, j, acc) ==
  IF j >= len THEN acc
  ELSE IF assignments[j + 1] = c
       THEN neighborClusterIds(c, j + 1, addAll(acc, neighborClusters[j + 1], 1))
       ELSE neighborClusterIds(c, j + 1, acc)

RECURSIVE deleteId(_, _)
deleteId(s, c) ==
  IF s = <<>> THEN <<>>
  ELSE IF Head(s) = c THEN deleteId(Tail(s), c)
  ELSE <<Head(s)>> \o deleteId(Tail(s), c)

\* line 201: neighborClusters is read at the POINT index j; the function returns
\* without storing as soon as an assigned point has no entry there
updateNeighborClustersReturnsEarly ==
  \E j \in 0..(len - 1) :
     /\ assignments[j + 1] \in 0..(k - 1)
     /\ j >= Len(neighborClusters)

\* updateNeighborClusters with a `continue` in place of the `return` of line 201:
\* a point without an entry contributes nothing and the result is stored
updateNeighborClustersSkipsMissing ==
  [c \in 1..k |->
     IF updateNeighborClustersReturnsEarly THEN <<>>
     ELSE deleteId(neighborClusterIds(c - 1, 0, <<>>), c - 1)]

\* the value of this.neighborClusters after updateNeighborClusters()
updateNeighborClusters ==
  IF updateNeighborClustersReturnsEarly THEN neighborClusters
  ELSE [c \in 1..k |-> deleteId(neighborClusterIds(c - 1, 0, <<>>), c - 1)]

\* while (change) { change = false; this.updateNeighborClusters(); ...
RunLoopEnter ==
  /\ pc = "while"
  /\ change
  /\ change' = FALSE
  /\ neighborClusters' = updateNeighborClusters
  /\ centroidId' = 0
  /\ passes' = IF passes < MaxPasses THEN passes + 1 ELSE passes
  /\ moved' = FALSE
  /\ reassigned' = FALSE
  /\ pc' = "recompute"
  /\ UNCHANGED <<variant, dataset, kArg, k, centroids, assignments, upperBounds,
                 lowerBounds, i, clusters, seeds>>

\* ---- centroid recompute
RECURSIVE count(_, _)
count(c, j) ==
  IF j >= len THEN 0
  ELSE (IF assignments[j + 1] = c THEN 1 ELSE 0) + count(c, j + 1)

RECURSIVE coordSum(_, _, _)
coordSum(c, dim, j) ==
  IF j >= len THEN 0
  ELSE (IF assignments[j + 1] = c /\ dim <= Len(dataset[j + 1])
        THEN dataset[j + 1][dim] ELSE 0) + coordSum(c, dim, j + 1)

\* lines 97-121: maxDim zeros, the assigned points added in, every entry / count
mean(c) == MeanArr([dim \in 1..maxDim |-> coordSum(c, dim, 0)], count(c, 0))

arraysEqual(a, b) ==
  IF SameRef(a, b) THEN TRUE
  ELSE IF a.tag = "undef" \/ b.tag = "undef" THEN FALSE
  ELSE IF Len(a.num) # Len(b.num) THEN FALSE
  ELSE \A x \in 1..Len(a.num) : a.num[x] * b.den = b.num[x] * a.den

nextCentroidPc == IF centroidId + 1 < k THEN "recompute" ELSE "updateBounds"

\* lines 117-127: the cluster has points
RunAdjustCentroid ==
  /\ pc = "recompute"
  /\ count(centroidId, 0) > 0
  /\ LET m == mean(centroidId)
     IN  IF ~arraysEqual(m, centroids[centroidId + 1])
         THEN /\ centroids' = [centroids EXCEPT ![centroidId + 1] = m]
              /\ change' = TRUE
              /\ moved' = TRUE
         ELSE UNCHANGED <<centroids, change, moved>>
  /\ centroidId' = centroidId + 1
  /\ pc' = nextCentroidPc
  /\ UNCHANGED <<variant, dataset, kArg, k, assignments, upperBounds, lowerBounds,
                 neighborClusters, i, clusters, seeds, passes, reassigned>>

\* the reseed branch without its `change = true` (line 131)
RunReseedCentroidNoChange ==
  /\ pc = "recompute"
  /\ count(centroidId, 0) = 0
  /\ \E id \in RandomIds(dataset) :
       IF randomCentroidAccepts(id)
       THEN /\ centroids' = [centroids EXCEPT ![centroidId + 1] = DatasetAt(dataset, id)]
            /\ moved' = TRUE
            /\ centroidId' = centroidId + 1
            /\ pc' = nextCentroidPc
       ELSE UNCHANGED <<centroids, moved, centroidId, pc>>
  /\ UNCHANGED <<variant, dataset, kArg, k, assignments, upperBounds, lowerBounds,
                 neighborClusters, change, i, clusters, seeds, passes, reassigned>>

\* lines 128-132: the cluster is empty; one turn of randomCentroid()'s do-while
RunReseedCentroid ==
  /\ pc = "recompute"
  /\ count(centroidId, 0) = 0
  /\ \E id \in RandomIds(dataset) :
       IF randomCentroidAccepts(id)
       THEN /\ centroids' = [centroids EXCEPT ![centroidId + 1] = DatasetAt(dataset, id)]
            /\ change' = TRUE
            /\ moved' = TRUE
            /\ centroidId' = centroidId + 1
            /\ pc' = nextCentroidPc
       ELSE UNCHANGED <<centroids, change, moved, centroidId, pc>>
  /\ UNCHANGED <<variant, dataset, kArg, k, assignments, upperBounds, lowerBounds,
                 neighborClusters, i, clusters, seeds, passes, reassigned>>

\* ---- bound update and reassignment
\* neighborClusters[assignments[i]]; when it is undefined `neighborClusters?.length`
\* is undefined, `nc < undefined` is false and the scan has no turn
neighborList(a) == IF a < Len(neighborClusters) THEN neighborClusters[a + 1] ELSE <<>>

\* lines 146-157: the first neighbor whose centroid is closer than oldLowerBound
RECURSIVE firstQualifying(_, _, _, _, _)
firstQualifying(point, a, ncs, pos, oldLowerBound) ==
  IF pos > Len(ncs) THEN -1
  ELSE IF /\ ncs[pos] # a
          /\ Less(euclideanDistance(point, centroids[ncs[pos] + 1]), oldLowerBound)
       THEN ncs[pos]
       ELSE firstQualifying(point, a, ncs, pos + 1, oldLowerBound)

boundStep(j) ==
  LET oldUpperBound == upperBounds[j + 1]
      oldLowerBound == lowerBounds[j + 1]
      point == DatasetAt(dataset, j)
      a == assignments[j + 1]
      distToClosestCentroid == euclideanDistance(point, centroids[a + 1])
      hit == firstQualifying(point, a, neighborList(a), 1, oldLowerBound)
  IN  IF Less(distToClosestCentroid, oldUpperBound)
      THEN [ub |-> distToClosestCentroid,
            lb |-> IF hit >= 0 THEN euclideanDistance(point, centroids[hit + 1])
                   ELSE oldLowerBound,
            asg |-> IF hit >= 0 THEN hit ELSE a,
            ch |-> hit >= 0]
      ELSE [ub |-> oldUpperBound, lb |-> oldLowerBound, asg |-> a, ch |-> FALSE]

\* lines 136-159, the whole loop over the points
RunUpdateBounds ==
  /\ pc = "updateBounds"
  /\ upperBounds' = [j \in 1..len |-> boundStep(j - 1).ub]
  /\ lowerBounds' = [j \in 1..len |-> boundStep(j - 1).lb]
  /\ assignments' = [j \in 1..len |-> boundStep(j - 1).asg]
  /\ change' = (change \/ \E j \in 0..(len - 1) : boundStep(j).ch)
  /\ reassigned' = (\E j \in 0..(len - 1) : boundStep(j).asg # assignments[j + 1])
  /\ pc' = "while"
  /\ UNCHANGED <<variant, dataset, kArg, k, centroids, neighborClusters, i,
                 centroidId, clusters, seeds, passes, moved>>

\* ---- getClusters
RECURSIVE getClustersFrom(_, _)
getClustersFrom(cl, pointId) ==
  IF pointId >= Len(assignments) THEN cl
  ELSE LET c == assignments[pointId + 1]
       IN  getClustersFrom(
             [cl EXCEPT ![c + 1] = [defined |-> TRUE, items |-> Append(@.items, pointId)]],
             pointId + 1)

\* getClusters with the point loop started at pointId = 1
getClustersSkipsFirst ==
  getClustersFrom([c \in 1..k |-> [defined |-> FALSE, items |-> <<>>]], 1)

\* new Array(k): k holes, filled in point order
getClusters == getClustersFrom([c \in 1..k |-> [defined |-> FALSE, items |-> <<>>]], 0)

\* the loop test fails: return this.getClusters()
RunReturn ==
  /\ pc = "while"
  /\ ~change
  /\ clusters' = getClusters
  /\ pc' = "done"
  /\ UNCHANGED <<variant, dataset, kArg, k, centroids, assignments, upperBounds,
                 lowerBounds, neighborClusters, change, i, centroidId, seeds, passes,
                 moved, reassigned>>

Next ==
  \/ RunInitCentroids
  \/ RunInitBounds
  \/ RunLoopEnter
  \/ RunAdjustCentroid
  \/ RunReseedCentroid
  \/ RunUpdateBounds
  \/ RunReturn

Spec == Init /\ [][Next]_vars

\* run() is one sequential call: it keeps executing, and a random draw that can be
\* accepted is eventually drawn
FairSpec == Spec /\ WF_vars(Next)

\* ======================= properties =======================

\* squared distance between two dataset points, on the integer coordinates
RECURSIVE PointDistSq(_, _, _)
PointDistSq(p, q, d) ==
  IF d = 0 THEN 0 ELSE (p[d] - q[d]) * (p[d] - q[d]) + PointDistSq(p, q, d - 1)

DistinctPoints == Cardinality({dataset[j] : j \in 1..len})
ValidInput == len >= 1 /\ kArg >= 1 /\ kArg <= DistinctPoints

\* randomCentroid() can never leave its do-while: every id it can draw is rejected
RandomCentroidSpins ==
  /\ \/ pc = "initCentroids"
     \/ pc = "recompute" /\ count(centroidId, 0) = 0
  /\ \A id \in RandomIds(dataset) : ~randomCentroidAccepts(id)

\* the same JS number
SameNum(a, b) == a.tag = b.tag /\ (a.tag = "num" => a.n * b.d = b.n * a.d)

\* distance from point j to the current centroid of cluster c
DistTo(j, c) == euclideanDistance(DatasetAt(dataset, j), centroids[c + 1])

\* number of output positions holding point index p
Occurrences(p) ==
  Cardinality({cx \in (1..Len(clusters)) \X (1..len) :
                 /\ cx[2] <= Len(clusters[cx[1]].items)
                 /\ clusters[cx[1]].items[cx[2]] = p})

\* C1: for a valid input (n >= 1, 1 <= k <= number of distinct points), when run()
\* has returned, every point index 0..n-1 occurs exactly once over all output
\* clusters and no output cluster holds an index outside 0..n-1
C1_Partition ==
  (pc = "done" /\ ValidInput) =>
     /\ \A p \in 0..(len - 1) : Occurrences(p) = 1
     /\ \A c \in 1..Len(clusters) : \A x \in 1..Len(clusters[c].items) :
          clusters[c].items[x] \in 0..(len - 1)

C1_Witness ==
  /\ pc = "done" /\ ValidInput /\ len = 3 /\ k = 2
  /\ \E c \in 1..Len(clusters) : Len(clusters[c].items) = 2

\* C2: with k = 0 or k > n the run neither returns a clustering nor loops forever
\* (it reports the configuration error instead)
C2_ConfigurationError ==
  (kArg = 0 \/ kArg > len) => (pc # "done" /\ ~RandomCentroidSpins)

\* C3: once a cluster holds zero points at the centroid-recompute step, the run
\* still reaches Converged and returns
C3_ReseedConverges ==
  (ValidInput /\ pc = "recompute" /\ count(centroidId, 0) = 0) ~> (pc = "done")

\* C4: when run() has returned, every point is assigned to the cluster an
\* exhaustive nearest-centroid search over the final centroids chooses (lowest id
\* on ties)
C4_PruningFidelity ==
  pc = "done" =>
     \A j \in 0..(len - 1) :
        assignments[j + 1] = argmin(DatasetAt(dataset, j), centroids)

\* sum of coordinate d over all points
RECURSIVE TotalCoord(_, _)
TotalCoord(d, j) == IF j = 0 THEN 0 ELSE dataset[j][d] + TotalCoord(d, j - 1)

\* C5: with k = 1 and a non-empty dataset the run does not fail, the reassignment
\* step of the first pass marks no change, and on return all points are in the
\* single cluster whose centroid is the coordinate-wise mean of all points
C5_Singleton ==
  (kArg = 1 /\ len >= 1) =>
     /\ pc # "threw"
     /\ (pc = "while" /\ passes = 1) => ~reassigned
     /\ pc = "done" =>
          /\ \A j \in 1..len : assignments[j] = 0
          /\ \A d \in 1..Len(dataset[1]) :
               centroids[1].num[d] * len = TotalCoord(d, len) * centroids[1].den

\* C6: right after centroid initialization there are exactly k centroids, each a
\* point of the dataset, no two from the same dataset index
C6_DistinctSeeds ==
  pc = "initBounds" =>
     /\ Len(centroids) = k
     /\ \A c \in 1..Len(centroids) :
          centroids[c].tag = "point" /\ centroids[c].id \in 0..(len - 1)
     /\ \A c, e \in 1..Len(centroids) : c # e => centroids[c].id # centroids[e].id

\* c is the nearest centroid to point j, lowest id on ties
IsNearest(j, c) ==
  /\ \A e \in 0..(k - 1) : ~Less(DistTo(j, e), DistTo(j, c))
  /\ \A e \in 0..(c - 1) : Less(DistTo(j, c), DistTo(j, e))

\* C7: after the initial bound computation with k >= 2, for every point i,
\* assignments[i] is the nearest seed centroid (lowest id on ties), upperBounds[i]
\* is the distance to it, and lowerBounds[i] is defined and is the distance to the
\* nearest centroid other than the assigned one
C7_InitialBounds ==
  (pc = "while" /\ passes = 0 /\ k >= 2) =>
     \A j \in 0..(len - 1) :
        LET a == assignments[j + 1]
        IN  /\ IsNearest(j, a)
            /\ SameNum(upperBounds[j + 1], DistTo(j, a))
            /\ lowerBounds[j + 1].tag = "num"
            /\ \E e \in (0..(k - 1)) \ {a} : SameNum(lowerBounds[j + 1], DistTo(j, e))
            /\ \A e \in (0..(k - 1)) \ {a} : ~Less(DistTo(j, e), lowerBounds[j + 1])

\* C8: at initialization and at the end of every pass of the main loop, for every
\* point i, upperBounds[i] >= the distance from i to its assigned centroid
C8_UpperBoundValid ==
  pc = "while" =>
     \A j \in 0..(len - 1) :
        ~Less(upperBounds[j + 1], DistTo(j, assignments[j + 1]))

ClusterSize(c) == Cardinality({j \in 1..len : assignments[j] = c})

RECURSIVE ClusterCoord(_, _, _)
ClusterCoord(c, d, j) ==
  IF j = 0 THEN 0
  ELSE (IF assignments[j] = c THEN dataset[j][d] ELSE 0) + ClusterCoord(c, d, j - 1)

\* C9: the main loop is left exactly at the end of a pass in which no centroid was
\* replaced and no point was reassigned; and when run() has returned, every
\* cluster id 0..k-1 has a point and every centroid is the coordinate-wise mean of
\* the points assigned to it
C9_Convergence ==
  /\ [](pc = "done" =>
          \A c \in 0..(k - 1) :
             /\ ClusterSize(c) >= 1
             /\ \A d \in 1..Len(dataset[1]) :
                  centroids[c + 1].num[d] * ClusterSize(c)
                    = ClusterCoord(c, d, len) * centroids[c + 1].den)
  /\ [][(pc = "while" /\ passes >= 1 /\ pc' # pc) =>
          ((pc' = "done") <=> (~moved /\ ~reassigned))]_vars

C9_Witness ==
  /\ pc = "done" /\ k = 2 /\ len = 3 /\ passes = 2
  /\ \E c \in 1..k : centroids[c].den = 2

\* s is the seed nearest to point j, lowest seed position on ties
IsNearestSeed(j, s) ==
  LET d(t) == PointDistSq(dataset[j + 1], dataset[seeds[t + 1] + 1], Len(dataset[j + 1]))
  IN  /\ \A t \in 0..(k - 1) : d(s) <= d(t)
      /\ \A t \in 0..(s - 1) : d(s) < d(t)

\* C10: for a non-empty dataset, neighborClusters stays empty, the assignment
\* vector is never modified after the initial bound computation, and the clustering
\* returned groups every point with its nearest seed centroid
C10_NoReassignment ==
  /\ [](len >= 1 => neighborClusters = <<>>)
  /\ [][(pc \notin {"initCentroids", "initBounds"}) => assignments' = assignments]_vars
  /\ [](pc = "done" /\ len >= 1 =>
          \A j \in 0..(len - 1) :
             /\ IsNearestSeed(j, assignments[j + 1])
             /\ \E x \in 1..Len(clusters[assignments[j + 1] + 1].items) :
                  clusters[assignments[j + 1] + 1].items[x] = j)

\* a returned run in which a point ended farther from its own centroid than from
\* another one: a reassignment was called for and none happened
C10_Witness ==
  /\ pc = "done" /\ len >= 2 /\ k >= 2 /\ passes >= 2
  /\ \E j \in 0..(len - 1) :
        assignments[j + 1] # argmin(DatasetAt(dataset, j), centroids)
====
